---- MODULE Spec2Model ----
(***************************************************************************)
(* A model of `wash up`: handle_up (src/src/up/mod.rs) sequencing the      *)
(* broker (NATS), the deployment manager (wadm) and the wasmCloud host,    *)
(* its rollback paths, and the interactive runner.  Every await point of   *)
(* handle_up is one action; the outcome of each fallible external call is  *)
(* drawn nondeterministically.                                             *)
(***************************************************************************)
EXTENDS Integers, Sequences, FiniteSets, TLC

\* ---------------------------------------------------------------- bounds
\* The dashboard scan covers DEFAULT_DASHBOARD_PORT .. DEFAULT_DASHBOARD_PORT
\* + PortSpan (the source scans + 1000).
PortSpan == 1
\* How many times the user may press Ctrl+C in one interactive run.
MaxCtrlC == 2

\* ------------------------------------------------------- program constants
DEFAULT_DASHBOARD_PORT == 4000

NoPort == 0
Ports == DEFAULT_DASHBOARD_PORT .. (DEFAULT_DASHBOARD_PORT + PortSpan)

VARIABLES
    cmd,            \* the UpCommand handed to handle_up
    pc,             \* position of handle_up's main flow
    occupied,       \* loopback ports on which some other process accepts connections
    ext,            \* what runs before/outside this invocation: broker, wadm
    fs,             \* files of the install root
    proc,           \* processes spawned by this invocation: nats, wadm, host
    loc,            \* handle_up's locals
    ir,             \* run_wasmcloud_interactive's state
    result,         \* what handle_up returned
    log,            \* history: the externally visible steps, in order
    lib             \* direct use of wash-lib's start functions: install root, history

vars == <<cmd, pc, occupied, ext, fs, proc, loc, ir, result, log, lib>>

\* --------------------------------------------------------------- results
\* The out_json of a CommandOutput: a key that was not inserted is "" / NoPort.
NoPayload == [success |-> FALSE, wasmcloud_url |-> NoPort, wasmcloud_log |-> NoPort,
              kill_cmd |-> "", nats_url |-> ""]

NoResult == [kind |-> "none", err |-> "", logPort |-> NoPort, port |-> NoPort,
             wraps |-> "", payload |-> NoPayload]
\* Ok(CommandOutput::new(out_text, out_json))
Ok(out_json) == [kind |-> "Ok", err |-> "", logPort |-> NoPort, port |-> NoPort,
                 wraps |-> "", payload |-> out_json]
\* An anyhow error: its message kind, the host log path it names (by port),
\* the port its message names, and the error it carries as context (none in
\* this code).
Err(e) == [kind |-> "Err", err |-> e, logPort |-> NoPort, port |-> NoPort,
           wraps |-> "", payload |-> NoPayload]
ErrLog(e, p) == [kind |-> "Err", err |-> e, logPort |-> p, port |-> NoPort,
                 wraps |-> "", payload |-> NoPayload]
ErrPort(e, p) == [kind |-> "Err", err |-> e, logPort |-> NoPort, port |-> p,
                  wraps |-> "", payload |-> NoPayload]

Returned == pc = "done"

\* ------------------------------------------------------------ UpCommand
\* clap: nats_credsfile requires nats_remote_url and vice versa, and
\* connect_only conflicts with nats_remote_url.
NatsModes == {"default", "connect_only", "remote_creds"}

\* A semver::Version without prerelease tag, and one with a tag.
Version(major, minor, patch) ==
    [major |-> major, minor |-> minor, patch |-> patch, pre |-> FALSE]

Prerelease(major, minor, patch) ==
    [major |-> major, minor |-> minor, patch |-> patch, pre |-> TRUE]

\* A version string: its leading 'v' characters, then a text that is a
\* semantic version (sem = <<version>>) or is not (sem = <<>>).
VersionString(vs, sem) == [vs |-> vs, sem |-> sem]

\* wasmcloud.rs line 26: "0.63.0"
MINIMUM_WASMCLOUD_VERSION == VersionString(0, <<Version(0, 63, 0)>>)

\* Values of --wasmcloud-version: "v0.63.0" and the earlier "v0.62.3".
UpVersions == {VersionString(1, <<Version(0, 63, 0)>>),
               VersionString(1, <<Version(0, 62, 3)>>)}

\* version.trim_start_matches('v')
trim_start_matches_v(version) == [version EXCEPT !.vs = 0]

\* semver::Version::parse: Ok as <<version>>, Err as <<>>; a text that
\* starts with 'v' is no semantic version.
semver_parse(text) == IF text.vs = 0 THEN text.sem ELSE <<>>

\* Mutant of VersionGeq: `>` in place of `>=`.
VersionGeq_Strict(a, b) ==
    \/ a.major > b.major
    \/ a.major = b.major /\ a.minor > b.minor
    \/ a.major = b.major /\ a.minor = b.minor /\ a.patch > b.patch

\* semver's `>=` comparator on release versions.
VersionGeq(a, b) ==
    \/ a.major > b.major
    \/ a.major = b.major /\ a.minor > b.minor
    \/ a.major = b.major /\ a.minor = b.minor /\ a.patch >= b.patch

\* Ok(()) of check_version, and its error, whose message names the
\* requested version and the minimum.
CheckOk == [ok |-> TRUE, names |-> {}]
CheckErr(version) == [ok |-> FALSE, names |-> {version, MINIMUM_WASMCLOUD_VERSION}]

\* Mutant of check_version: a prerelease is compared like a release.
check_version_NoPrereleaseArm(version) ==
    LET version_req == semver_parse(MINIMUM_WASMCLOUD_VERSION)[1]
        parsed == semver_parse(trim_start_matches_v(version))
    IN  IF parsed # <<>> /\ ~VersionGeq(parsed[1], version_req)
        THEN CheckErr(version)
        ELSE CheckOk

\* wasmcloud.rs lines 284-304, the match arms in their order.
check_version(version) ==
    LET version_req == semver_parse(MINIMUM_WASMCLOUD_VERSION)[1]
        parsed == semver_parse(trim_start_matches_v(version))
    IN  IF parsed # <<>> /\ parsed[1].pre THEN CheckOk
        ELSE IF parsed # <<>> /\ ~VersionGeq(parsed[1], version_req)
             THEN CheckErr(version)
        ELSE CheckOk

\* ------------------------------------------- provisioning (wasmcloud.rs)
\* wasmcloud.rs line 20
WASMCLOUD_HOST_BIN == "wasmcloud_host"

\* Mutant of bin_path: the binary is not stored under its version.
bin_path_Unversioned(version) ==
    [dir |-> VersionString(0, <<>>), name |-> WASMCLOUD_HOST_BIN]

\* dir.join(version).join(WASMCLOUD_HOST_BIN), lines 176-177 and 264-265
bin_path(version) == [dir |-> version, name |-> WASMCLOUD_HOST_BIN]

\* wasmcloud_url, lines 271-280: the release URL names the version.
wasmcloud_url(version) == [release |-> version, asset |-> "wasmcloud_host_arch_os"]

\* StatusCode::OK, line 161
StatusOK == 200

\* What the network and the disk do to one download: the response status
\* (NoResponse when reqwest::get fails) and the first I/O call that fails.
NoResponse == 0
Statuses == {NoResponse, StatusOK, 204, 404}
IoOutcomes == {"ok", "mkdir_err", "create_err", "perm_err", "copy_err"}
HttpOutcomes == [status : Statuses, io : IoOutcomes]

\* Results of the provisioning functions: Ok(path), or an error with what
\* its message names.
NoPath == [dir |-> VersionString(0, <<>>), name |-> ""]
ProvOk(path) ==
    [ok |-> TRUE, path |-> path, err |-> "", names |-> {}, url |-> <<>>, status |-> NoResponse]
ProvErr(e) ==
    [ok |-> FALSE, path |-> NoPath, err |-> e, names |-> {}, url |-> <<>>, status |-> NoResponse]
ProvErrVersion(names) ==
    [ok |-> FALSE, path |-> NoPath, err |-> "Version", names |-> names, url |-> <<>>,
     status |-> NoResponse]
ProvErrStatus(url, status) ==
    [ok |-> FALSE, path |-> NoPath, err |-> "HostDownload", names |-> {}, url |-> <<url>>,
     status |-> status]

\* An install root: the content of each file ("none" when absent), and
\* the version directories that exist.
Exists(root, path) == path \in DOMAIN root.files /\ root.files[path] # "none"

\* find_wasmcloud_binary, lines 260-268: metadata(bin_file).is_ok()
find_wasmcloud_binary(root, version) ==
    IF Exists(root, bin_path(version)) THEN <<bin_path(version)>> ELSE <<>>

\* What a call did besides returning: the new install root, the GET
\* requests it issued and the files it created or truncated.
Done(ret, root, requests, writes) ==
    [ret |-> ret, root |-> root, requests |-> requests, writes |-> writes]

\* Mutant of download_wasmcloud: the file is created before the status is
\* looked at.
download_wasmcloud_CreatesFirst(root, version, http) ==
    LET url == wasmcloud_url(version)
        file_path == bin_path(version)
        made == [root EXCEPT !.dirs = @ \cup {version}]
        created(c) == [made EXCEPT !.files[file_path] = c]
    IN  IF http.status = NoResponse
        THEN Done(ProvErr("Io"), root, <<url>>, <<>>)
        ELSE IF http.status # StatusOK
        THEN Done(ProvErrStatus(url, http.status), created("empty"), <<url>>, <<file_path>>)
        ELSE Done(ProvOk(file_path), created("full"), <<url>>, <<file_path>>)

\* Mutant of download_wasmcloud: the written file is not probed for again.
download_wasmcloud_NoReprobe(root, version, http) ==
    LET url == wasmcloud_url(version)
        file_path == bin_path(version)
        made == [root EXCEPT !.dirs = @ \cup {version}]
        created(c) == [made EXCEPT !.files[file_path] = c]
    IN  IF http.status = NoResponse
        THEN Done(ProvErr("Io"), root, <<url>>, <<>>)
        ELSE IF http.status # StatusOK
        THEN Done(ProvErrStatus(url, http.status), root, <<url>>, <<>>)
        ELSE IF http.io = "mkdir_err"
        THEN Done(ProvErr("Io"), root, <<url>>, <<>>)
        ELSE IF http.io = "create_err"
        THEN Done(ProvOk(file_path), made, <<url>>, <<>>)
        ELSE IF http.io = "perm_err"
        THEN Done(ProvErr("Io"), created("empty"), <<url>>, <<file_path>>)
        ELSE IF http.io = "copy_err"
        THEN Done(ProvErr("Io"), created("partial"), <<url>>, <<file_path>>)
        ELSE Done(ProvOk(file_path), created("full"), <<url>>, <<file_path>>)

\* Mutant of download_wasmcloud: a failed copy removes the file it began.
download_wasmcloud_CleansUp(root, version, http) ==
    LET url == wasmcloud_url(version)
        file_path == bin_path(version)
        made == [root EXCEPT !.dirs = @ \cup {version}]
        created(c) == [made EXCEPT !.files[file_path] = c]
        probe(r, w) ==
            IF find_wasmcloud_binary(r, version) # <<>>
            THEN Done(ProvOk(file_path), r, <<url>>, w)
            ELSE Done(ProvErr("NotInstalled"), r, <<url>>, w)
    IN  IF http.status = NoResponse
        THEN Done(ProvErr("Io"), root, <<url>>, <<>>)
        ELSE IF http.status # StatusOK
        THEN Done(ProvErrStatus(url, http.status), root, <<url>>, <<>>)
        ELSE IF http.io = "mkdir_err"
        THEN Done(ProvErr("Io"), root, <<url>>, <<>>)
        ELSE IF http.io = "create_err"
        THEN probe(made, <<>>)
        ELSE IF http.io = "perm_err"
        THEN Done(ProvErr("Io"), created("empty"), <<url>>, <<file_path>>)
        ELSE IF http.io = "copy_err"
        THEN Done(ProvErr("Io"), created("none"), <<url>>, <<file_path>>)
        ELSE probe(created("full"), <<file_path>>)

\* download_wasmcloud_for_os_arch_pair, lines 151-204
download_wasmcloud(root, version, http) ==
    LET url == wasmcloud_url(version)
        file_path == bin_path(version)
        made == [root EXCEPT !.dirs = @ \cup {version}]
        created(c) == [made EXCEPT !.files[file_path] = c]
        probe(r, w) ==                                     \* lines 198-203
            IF find_wasmcloud_binary(r, version) # <<>>
            THEN Done(ProvOk(file_path), r, <<url>>, w)
            ELSE Done(ProvErr("NotInstalled"), r, <<url>>, w)
    IN  IF http.status = NoResponse                        \* reqwest::get(url)?
        THEN Done(ProvErr("Io"), root, <<url>>, <<>>)
        ELSE IF http.status # StatusOK                     \* lines 161-167
        THEN Done(ProvErrStatus(url, http.status), root, <<url>>, <<>>)
        ELSE IF http.io = "mkdir_err"                      \* create_dir_all(...)?
        THEN Done(ProvErr("Io"), root, <<url>>, <<>>)
        ELSE IF http.io = "create_err"                     \* File::create is Err
        THEN probe(made, <<>>)
        ELSE IF http.io = "perm_err"                       \* set_permissions(...)?
        THEN Done(ProvErr("Io"), created("empty"), <<url>>, <<file_path>>)
        ELSE IF http.io = "copy_err"                       \* copy(...)?
        THEN Done(ProvErr("Io"), created("partial"), <<url>>, <<file_path>>)
        ELSE probe(created("full"), <<file_path>>)

\* Mutant of ensure_wasmcloud: no early return for an installed binary.
ensure_wasmcloud_AlwaysDownloads(root, version, http) ==
    LET checked == check_version(version)
    IN  IF ~checked.ok THEN Done(ProvErrVersion(checked.names), root, <<>>, <<>>)
        ELSE download_wasmcloud(root, version, http)

\* ensure_wasmcloud_for_os_arch_pair, lines 82-98
ensure_wasmcloud(root, version, http) ==
    LET checked == check_version(version)
        found == find_wasmcloud_binary(root, version)
    IN  IF ~checked.ok THEN Done(ProvErrVersion(checked.names), root, <<>>, <<>>)
        ELSE IF found # <<>> THEN Done(ProvOk(found[1]), root, <<>>, <<>>)
        ELSE download_wasmcloud(root, version, http)

\* Version strings handed to the provisioning functions directly: "v0.63.0",
\* the too old "v0.62.3" and the prerelease "v0.64.0-rc.1".
LibVersions == UpVersions \cup {VersionString(1, <<Prerelease(0, 64, 0)>>)}

LibPaths == {bin_path(v) : v \in LibVersions}

EmptyRoot == [files |-> [p \in LibPaths |-> "none"], dirs |-> {}]

\* No library call made: the state of lib throughout handle_up.
LibIdle == [root |-> EmptyRoot, requests |-> <<>>, writes |-> <<>>, calls |-> <<>>,
            checked |-> <<>>, launches |-> <<>>, hosts |-> <<>>]

\* ------------------------------------------------- launch (wasmcloud.rs)
\* The WASMCLOUD_DASHBOARD_PORT entry of an environment map: <<port>>, or
\* <<>> when the map has none.  Lines 225-228.
dashboard_port(env_vars) ==
    IF env_vars = <<>> THEN DEFAULT_DASHBOARD_PORT ELSE env_vars[1]

\* Mutant of start_wasmcloud_host: the port is not probed before the spawn.
start_wasmcloud_host_NoProbe(env_vars, listening, spawn_ok) ==
    IF ~spawn_ok
    THEN [ok |-> FALSE, err |-> "HostSpawn", port |-> NoPort, spawned |-> FALSE]
    ELSE [ok |-> TRUE, err |-> "", port |-> dashboard_port(env_vars), spawned |-> TRUE]

\* start_wasmcloud_host, lines 213-256: `listening` are the ports that
\* accept a connection, spawn_ok whether group_spawn() succeeds.  The
\* error of an occupied port names the port.
start_wasmcloud_host(env_vars, listening, spawn_ok) ==
    LET port == dashboard_port(env_vars) IN
    IF port \in listening
    THEN [ok |-> FALSE, err |-> "HostPortInUse", port |-> port, spawned |-> FALSE]
    ELSE IF ~spawn_ok
    THEN [ok |-> FALSE, err |-> "HostSpawn", port |-> NoPort, spawned |-> FALSE]
    ELSE [ok |-> TRUE, err |-> "", port |-> port, spawned |-> TRUE]

Commands ==
    [ detached : BOOLEAN,
      nats_mode : NatsModes,
      disable_wadm : BOOLEAN,
      start_only : BOOLEAN,
      dashboard_port : {NoPort} \cup Ports,
      wasmcloud_version : UpVersions,
      ctl_override : BOOLEAN ]

\* Commands without --ctl-host / --ctl-port: the control channel is the
\* NATS address.
PlainCommands == {c \in Commands : ~c.ctl_override}

\* Commands that let the scan pick the port and ask for a supported
\* version, with or without a control-channel override.
CtlCommands ==
    {c \in Commands : /\ c.dashboard_port = NoPort
                      /\ check_version(c.wasmcloud_version).ok}

connect_only == cmd.nats_mode = "connect_only"

\* line 379: nats_remote_url.is_some() && nats_credsfile.is_some()
supplied_remote_credentials == cmd.nats_mode = "remote_creds"

\* ------------------------------------------------------------ PortProbe
\* TcpStream::connect((LOCALHOST, p)) succeeds iff something listens on p.
CanConnect(p) == p \in occupied \/ (proc.host_up /\ p = loc.host_port)

\* Mutant of ScanFrom: the range excludes its end (start_port..end_port).
RECURSIVE ScanFrom_Exclusive(_, _)
ScanFrom_Exclusive(i, end_port) ==
    IF i >= end_port THEN NoPort
    ELSE IF ~CanConnect(i) THEN i
    ELSE ScanFrom_Exclusive(i + 1, end_port)

\* lines 670-677: `for i in start_port..=end_port`, first refused connect wins.
RECURSIVE ScanFrom(_, _)
ScanFrom(i, end_port) ==
    IF i > end_port THEN NoPort
    ELSE IF ~CanConnect(i) THEN i
    ELSE ScanFrom(i + 1, end_port)

\* Mutant of ensure_open_port: an occupied supplied port falls back to the scan.
ensure_open_port_Fallback(supplied_port) ==
    IF supplied_port # NoPort /\ ~CanConnect(supplied_port)
    THEN supplied_port
    ELSE ScanFrom(DEFAULT_DASHBOARD_PORT, DEFAULT_DASHBOARD_PORT + PortSpan)

\* ensure_open_port: the port on success, NoPort on error.
ensure_open_port(supplied_port) ==
    IF supplied_port # NoPort
    THEN IF CanConnect(supplied_port) THEN NoPort ELSE supplied_port
    ELSE ScanFrom(DEFAULT_DASHBOARD_PORT, DEFAULT_DASHBOARD_PORT + PortSpan)

\* ------------------------------------------------------------ the broker
\* nats_client_from_wasmcloud_opts: a connection succeeds iff a broker,
\* pre-existing or started by this invocation, is running.
BrokerReachable == ext.broker \/ proc.nats = "running"

\* lines 339-348 and 683-698: the client of lines 373 and 397 connects to
\* ctl_host:ctl_port, which is the NATS address unless overridden; at an
\* overridden address only a broker from outside can listen.
ctl_reachable == IF cmd.ctl_override THEN ext.ctl_broker ELSE BrokerReachable

\* Mutant of should_run_nats: the result of the first connection is ignored.
should_run_nats_IgnoringClient == ~connect_only

\* Mutant of should_run_nats: --nats-connect-only is ignored.
should_run_nats_IgnoringConnectOnly == ~loc.nats_client_ok

\* line 377
should_run_nats == ~connect_only /\ ~loc.nats_client_ok

Emit(e) == log' = Append(log, e)

Return(r) == /\ pc' = "done"
             /\ result' = r

\* ------------------------------------------------------------------ Init
InitFrom(commands, ctl_brokers) ==
    /\ cmd \in commands
    /\ pc = "start"
    /\ occupied \in SUBSET Ports
    /\ ext \in [broker : BOOLEAN, wadm : BOOLEAN, ctl_broker : ctl_brokers]
    /\ \E stale_wadm_pid \in BOOLEAN, installed \in BOOLEAN, reg \in BOOLEAN :
         fs = [ nats_pid |-> IF ext.broker /\ reg THEN "ext" ELSE "none",
                wadm_pid |-> stale_wadm_pid,
                host_bin |-> installed,
                host_pid |-> <<>>,
                wadm_log |-> FALSE ]
    /\ proc = [nats |-> "none", wadm |-> "none", host |-> "none", host_up |-> FALSE]
    /\ loc = [ host_port |-> NoPort,
               nats_client_ok |-> FALSE,
               nats_bin |-> FALSE,
               wadm_process |-> FALSE,
               pending |-> NoResult ]
    /\ ir = [ running |-> TRUE, chan |-> 0, sender |-> "none",
              task |-> "none", drain |-> "none", ctrlc |-> 0 ]
    /\ result = NoResult
    /\ log = <<>>
    /\ lib = LibIdle

Init == InitFrom(PlainCommands, {FALSE})

\* ------------------------------------------------------------ handle_up
\* lines 328-330: create the install dir and the spinner.
CreateInstallDir ==
    /\ pc = "start"
    /\ \/ pc' = "select_port" /\ UNCHANGED result
       \/ Return(Err("Io"))               \* create_dir_all(...)? / Spinner::new(...)?
    /\ UNCHANGED <<lib, cmd, occupied, ext, fs, proc, loc, ir, log>>

\* lines 332-333: pick the dashboard port; the error of a supplied port
\* names that port (line 663).
SelectPort ==
    /\ pc = "select_port"
    /\ LET p == ensure_open_port(cmd.dashboard_port) IN
       \/ /\ p # NoPort
          /\ loc' = [loc EXCEPT !.host_port = p]
          /\ pc' = "preflight"
          /\ UNCHANGED result
       \/ /\ p = NoPort
          /\ Return(IF cmd.dashboard_port # NoPort
                    THEN ErrPort("PortOccupied", cmd.dashboard_port)
                    ELSE Err("NoFreePort"))
          /\ UNCHANGED loc
    /\ UNCHANGED <<lib, cmd, occupied, ext, fs, proc, ir, log>>

\* lines 373-380: the first connection attempt decides should_run_nats.
NatsPreflight ==
    /\ pc = "preflight"
    /\ loc' = [loc EXCEPT !.nats_client_ok = ctl_reachable]
    /\ pc' = "nats_stage"
    /\ UNCHANGED <<lib, cmd, occupied, ext, fs, proc, ir, result, log>>

\* lines 382-393: download the broker binary when a broker must be run.
EnsureNats ==
    /\ pc = "nats_stage"
    /\ IF should_run_nats \/ supplied_remote_credentials
       THEN \/ /\ pc' = "start_nats"                  \* ensure_nats_server Ok
               /\ Emit("ensure_nats")
               /\ UNCHANGED result
            \/ /\ Return(Err("NatsDownload"))         \* ensure_nats_server(...)?
               /\ Emit("ensure_nats")
       ELSE /\ pc' = "nats_connect"                   \* nats_bin = None
            /\ UNCHANGED <<result, log>>
    /\ UNCHANGED <<lib, cmd, occupied, ext, fs, proc, loc, ir>>

\* ------------------------------------------------------- child handles
\* Mutant of kill_on_drop: the host Command asks for kill on drop.
kill_on_drop_set == TRUE

\* wasmcloud.rs lines 240-246: the host Command is built without
\* kill_on_drop(true).
kill_on_drop == FALSE

\* The Commands of start_nats_server and start_wadm: the processes they
\* spawn outlive their handles.
start_kill_on_drop == FALSE

\* Dropping the handle of a child whose Command had kill_on_drop = kod.
drop_child(state, kod) == IF kod /\ state = "running" THEN "stopped" ELSE state

\* ----------------------------------------------------------- broker stage
\* Mutant of start_nats: the remote is not tried before the broker is started.
start_nats_NoPreflight ==
    /\ pc = "start_nats"
    /\ pc' = "start_nats_server"
    /\ UNCHANGED <<lib, cmd, occupied, ext, fs, proc, loc, ir, result, log>>

\* start_nats, lines 546-568: with a remote URL and credentials, the
\* authenticated connection to the remote comes first.
start_nats ==
    /\ pc = "start_nats"
    /\ IF supplied_remote_credentials
       THEN \/ /\ Return(Err("LeafnodeRemote"))       \* line 562
               /\ Emit("remote_preflight_err")
            \/ /\ pc' = "start_nats_server"
               /\ Emit("remote_preflight_ok")
               /\ UNCHANGED result
       ELSE /\ pc' = "start_nats_server"
            /\ UNCHANGED <<result, log>>
    /\ UNCHANGED <<lib, cmd, occupied, ext, fs, proc, loc, ir>>

\* Mutant of nats_process_id: the handle no longer knows its process id.
nats_process_id_None == <<>>

\* nats_process.id() of line 579: the handle start_nats_server returns is
\* that of the process just spawned and carries its process id (Some).
nats_process_id == <<"own">>

\* lines 579-582: `if let Some(pid) = nats_process.id()` writes nats.pid.
write_nats_pid(pid_file) ==
    IF nats_process_id # <<>> THEN nats_process_id[1] ELSE pid_file

\* start_nats, lines 569-584, and line 389 (nats_bin = Some) on success.
StartNatsServer ==
    /\ pc = "start_nats_server"
    /\ \/ /\ Return(Err("Io"))                        \* File::create(nats.log)?
          /\ UNCHANGED <<fs, proc, loc, log>>
       \/ /\ Return(Err("NatsStart"))                 \* start_nats_server(...)?
          /\ UNCHANGED <<fs, proc, loc, log>>
       \/ /\ nats_process_id # <<>>                   \* spawned, pid write fails
          /\ proc' = [proc EXCEPT
                         !.nats = drop_child("running", start_kill_on_drop)]
          /\ Emit("spawn_nats")
          /\ Return(Err("Io"))
          /\ UNCHANGED <<fs, loc>>
       \/ /\ proc' = [proc EXCEPT                     \* handle dropped, line 388
                         !.nats = drop_child("running", start_kill_on_drop)]
          /\ fs' = [fs EXCEPT !.nats_pid = write_nats_pid(@)]
          /\ loc' = [loc EXCEPT !.nats_bin = TRUE]
          /\ Emit("spawn_nats")
          /\ pc' = "nats_connect"
          /\ UNCHANGED result
    /\ UNCHANGED <<lib, cmd, occupied, ext, ir>>

\* Mutant of NatsConnect: the connection goes to the NATS address, not to
\* the merged control-channel address.
NatsConnect_NatsAddress ==
    /\ pc = "nats_connect"
    /\ IF BrokerReachable
       THEN pc' = "wadm_stage" /\ Emit("nats_connected") /\ UNCHANGED result
       ELSE Return(Err("NatsConnect")) /\ UNCHANGED log
    /\ UNCHANGED <<lib, cmd, occupied, ext, fs, proc, loc, ir>>

\* line 397: the connection the host will use must succeed.
NatsConnect ==
    /\ pc = "nats_connect"
    /\ IF ctl_reachable
       THEN pc' = "wadm_stage" /\ Emit("nats_connected") /\ UNCHANGED result
       ELSE Return(Err("NatsConnect")) /\ UNCHANGED log
    /\ UNCHANGED <<lib, cmd, occupied, ext, fs, proc, loc, ir>>

\* Mutant of is_wadm_running: the query never finds a deployment manager.
is_wadm_running_Never == FALSE

\* is_wadm_running(...).unwrap_or(false), lines 638-653: the client connects
\* (a broker is reachable) and the model query is answered.
is_wadm_running == BrokerReachable /\ ext.wadm

\* start_wadm records the process in wadm.pid of the install root.
start_wadm_pid_file == TRUE

\* lines 399-436: the deployment manager, non-fatal when it cannot be
\* downloaded or started.
WadmStage ==
    /\ pc = "wadm_stage"
    /\ IF ~cmd.disable_wadm /\ ~is_wadm_running
       THEN \/ /\ Return(Err("Io"))                   \* File::create(wadm.log)?
               /\ UNCHANGED <<proc, fs, loc, log>>
            \/ /\ Emit("warn_wadm_download")          \* ensure_wadm Err, line 430
               /\ fs' = [fs EXCEPT !.wadm_log = TRUE]
               /\ pc' = "host_binary"
               /\ UNCHANGED <<proc, loc, result>>
            \/ /\ Emit("warn_wadm_start")             \* start_wadm Err, line 423
               /\ fs' = [fs EXCEPT !.wadm_log = TRUE]
               /\ pc' = "host_binary"
               /\ UNCHANGED <<proc, loc, result>>
            \/ /\ proc' = [proc EXCEPT !.wadm = "running"]
               /\ fs' = [fs EXCEPT !.wadm_log = TRUE,
                                   !.wadm_pid = @ \/ start_wadm_pid_file]
               /\ loc' = [loc EXCEPT !.wadm_process = TRUE]
               /\ Emit("spawn_wadm")
               /\ pc' = "host_binary"
               /\ UNCHANGED result
       ELSE /\ pc' = "host_binary"
            /\ UNCHANGED <<proc, fs, loc, result, log>>
    /\ UNCHANGED <<lib, cmd, occupied, ext, ir>>

\* Mutant of StartOnlyStopsNats: the start-only rollback forgets the broker.
StartOnlyStopsNats_Never == FALSE

\* line 448: the start-only rollback stops the broker iff nats_bin.is_some().
StartOnlyStopsNats == loc.nats_bin

\* line 492: the readiness-timeout rollback stops the broker iff nats_bin.is_some().
TimeoutStopsNats == loc.nats_bin

\* line 483: the host-start rollback stops the broker iff !connect_only.
HostStartStopsNats == ~connect_only

\* Leave handle_up with error r, stopping the broker first when asked to.
Rollback(stop, r) ==
    IF stop
    THEN /\ pc' = "stop_nats"
         /\ loc' = [loc EXCEPT !.pending = r]
         /\ UNCHANGED result
    ELSE /\ Return(r)
         /\ UNCHANGED loc

\* The install root as handle_up sees it: the binary of the requested
\* version is there or not.
install_dir ==
    [files |-> (bin_path(cmd.wasmcloud_version) :> IF fs.host_bin THEN "full" ELSE "none"),
     dirs |-> {}]

\* lines 438-452, with ensure_wasmcloud_for_os_arch_pair (wasmcloud.rs 82-98)
\* and download_wasmcloud_for_os_arch_pair (wasmcloud.rs 151-204).
HostBinary ==
    /\ pc = "host_binary"
    /\ IF ~cmd.start_only
       THEN \E http \in HttpOutcomes :
              LET did == ensure_wasmcloud(install_dir, cmd.wasmcloud_version, http) IN
              /\ fs' = [fs EXCEPT !.host_bin =
                                    Exists(did.root, bin_path(cmd.wasmcloud_version))]
              /\ log' = IF did.requests # <<>> THEN Append(log, "download_host") ELSE log
              /\ IF did.ret.ok
                 THEN pc' = "host_start" /\ UNCHANGED result
                 ELSE Return(Err(did.ret.err))        \* ensure_wasmcloud(...)?
              /\ UNCHANGED loc
       ELSE IF find_wasmcloud_binary(install_dir, cmd.wasmcloud_version) # <<>>
            THEN /\ pc' = "host_start"
                 /\ UNCHANGED <<fs, loc, result, log>>
            ELSE /\ Rollback(StartOnlyStopsNats, Err("StartOnlyMissing"))
                 /\ UNCHANGED <<fs, log>>
    /\ UNCHANGED <<lib, cmd, occupied, ext, proc, ir>>

\* crate::down::stop_nats succeeding: the broker recorded in nats.pid is
\* stopped and the pid file removed.
stop_nats_ok ==
    /\ fs.nats_pid # "none"
    /\ proc' = IF fs.nats_pid = "own" THEN [proc EXCEPT !.nats = "stopped"] ELSE proc
    /\ ext' = IF fs.nats_pid = "ext" THEN [ext EXCEPT !.broker = FALSE] ELSE ext
    /\ fs' = [fs EXCEPT !.nats_pid = "none"]

\* `stop_nats(install_dir).await?;` then `return Err(..)`: lines 449-451,
\* 484-486 and 493-495.
StopNats ==
    /\ pc = "stop_nats"
    /\ \/ /\ stop_nats_ok
          /\ Emit("stop_nats_ok")
          /\ Return(loc.pending)
       \/ /\ Emit("stop_nats_err")
          /\ Return(Err("StopNatsFailed"))
          /\ UNCHANGED <<proc, ext, fs>>
    /\ UNCHANGED <<lib, cmd, occupied, loc, ir>>

\* lines 480-482 and what follows them: `child.kill().await?;`
KillWadm ==
    /\ pc = "kill_wadm"
    /\ \/ /\ proc' = [proc EXCEPT !.wadm = "stopped"]
          /\ Emit("kill_wadm_ok")
          /\ Rollback(HostStartStopsNats, loc.pending)
       \/ /\ Emit("kill_wadm_err")
          /\ Return(Err("KillFailed"))
          /\ UNCHANGED <<proc, loc>>
    /\ UNCHANGED <<lib, cmd, occupied, ext, fs, ir>>

\* Mutant of HostStartFailed: the error is returned with nothing undone.
HostStartFailed_NoRollback(e) ==
    /\ Return(Err(e))
    /\ UNCHANGED loc

\* lines 478-487: the Err arm of start_wasmcloud_host.
HostStartFailed(e) ==
    IF loc.wadm_process
    THEN /\ pc' = "kill_wadm"
         /\ loc' = [loc EXCEPT !.pending = Err(e)]
         /\ UNCHANGED result
    ELSE Rollback(HostStartStopsNats, Err(e))

\* configure_host_env: the environment map names the selected port as
\* WASMCLOUD_DASHBOARD_PORT.
configure_host_env == <<loc.host_port>>

\* lines 454-488, with start_wasmcloud_host (wasmcloud.rs 213-256).
HostStart ==
    /\ pc = "host_start"
    /\ \/ /\ cmd.detached                             \* File::create(log)?
          /\ Return(Err("Io"))
          /\ UNCHANGED <<proc, loc, log>>
       \/ \E spawn_ok \in BOOLEAN :
            LET started == start_wasmcloud_host(configure_host_env,
                                                {p \in Ports : CanConnect(p)}, spawn_ok)
            IN  IF started.ok
                THEN /\ proc' = [proc EXCEPT !.host = "running"]
                     /\ Emit("spawn_host")
                     /\ pc' = "wait_for_server"
                     /\ UNCHANGED <<loc, result>>
                ELSE /\ HostStartFailed(started.err)
                     /\ UNCHANGED <<proc, log>>
    /\ UNCHANGED <<lib, cmd, occupied, ext, fs, ir>>

\* The spawned host finishes booting and listens on its dashboard port.
HostBoots ==
    /\ proc.host = "running"
    /\ ~proc.host_up
    /\ ~CanConnect(loc.host_port)
    /\ proc' = [proc EXCEPT !.host_up = TRUE]
    /\ UNCHANGED <<lib, cmd, pc, occupied, ext, fs, loc, ir, result, log>>

\* Mutant of WaitForServer: the dispatch does not wait for the dashboard.
WaitForServer_NoProbe ==
    /\ pc = "wait_for_server"
    /\ pc' = "dispatch"
    /\ UNCHANGED <<lib, cmd, occupied, ext, fs, proc, loc, ir, result, log>>

\* Mutant of WaitForServer: a host that is not ready in time is launched again.
WaitForServer_Respawn ==
    /\ pc = "wait_for_server"
    /\ \/ /\ CanConnect(loc.host_port)
          /\ pc' = "dispatch"
          /\ Emit("host_ready")
       \/ /\ pc' = "host_start"
          /\ UNCHANGED log
    /\ UNCHANGED <<lib, cmd, occupied, ext, fs, proc, loc, ir, result>>

\* lines 490-496: wait_for_server(url, "Washboard").
WaitForServer ==
    /\ pc = "wait_for_server"
    /\ \/ /\ CanConnect(loc.host_port)
          /\ pc' = "dispatch"
          /\ Emit("host_ready")
          /\ UNCHANGED <<loc, result>>
       \/ /\ Rollback(TimeoutStopsNats, ErrLog("ReadinessTimeout", loc.host_port))
          /\ UNCHANGED log
    /\ UNCHANGED <<lib, cmd, occupied, ext, fs, proc, ir>>

\* Another process starts listening on the port chosen for the host before
\* the host is launched.
PortTaken ==
    /\ pc \in {"preflight", "nats_stage", "start_nats", "nats_connect",
               "start_nats_server", "wadm_stage", "host_binary", "host_start"}
    /\ loc.host_port \notin occupied
    /\ occupied' = occupied \cup {loc.host_port}
    /\ UNCHANGED <<lib, cmd, pc, ext, fs, proc, loc, ir, result, log>>

\* lines 515-518: what every successful return carries.
success_output == [NoPayload EXCEPT !.success = TRUE]

\* Mutant of detached_output: the hint on how to stop is left out.
detached_output_NoKillCmd ==
    [success_output EXCEPT !.wasmcloud_url = loc.host_port,
                           !.wasmcloud_log = loc.host_port,
                           !.nats_url = "nats_listen_address"]

\* lines 520-527: what a detached run adds to it.
detached_output ==
    [success_output EXCEPT !.wasmcloud_url = loc.host_port,
                           !.wasmcloud_log = loc.host_port,
                           !.kill_cmd = "wash down",
                           !.nats_url = "nats_listen_address"]

\* lines 498-543: the mode dispatch once the host is ready.
Dispatch ==
    /\ pc = "dispatch"
    /\ IF cmd.detached
       THEN /\ proc' = [proc EXCEPT                    \* handles dropped on return
                         !.host = drop_child(@, kill_on_drop),
                         !.host_up = @ /\ ~kill_on_drop,
                         !.wadm = IF loc.wadm_process
                                  THEN drop_child(@, start_kill_on_drop) ELSE @]
            /\ \/ /\ fs' = [fs EXCEPT !.host_pid = <<cmd.wasmcloud_version>>] \* line 522
                  /\ Return(Ok(detached_output))
               \/ /\ Return(Err("Io"))                        \* fs::write(...)?
                  /\ UNCHANGED fs
       ELSE /\ pc' = "ir_start"                               \* line 500
            /\ UNCHANGED <<fs, proc, result>>
    /\ UNCHANGED <<lib, cmd, occupied, ext, loc, ir, log>>

\* ------------------------------------------- run_wasmcloud_interactive
\* lines 457-465: the stderr the host child is started with.
host_stderr == IF cmd.detached THEN "file" ELSE "piped"

\* lines 615-624: stderr.take().map(..) spawns the drain task only for a
\* child whose stderr is piped.
spawn_drain == IF host_stderr = "piped" THEN "running" ELSE "none"

\* lines 592-624: the channel, the flag, the signal-handler task and the
\* log-draining task (stderr is piped in interactive mode, line 464).
InteractiveStart ==
    /\ pc = "ir_start"
    /\ ir' = [ir EXCEPT !.running = TRUE, !.chan = 0, !.sender = "alive",
                        !.task = "spawned", !.drain = spawn_drain]
    /\ pc' = "ir_recv"
    /\ UNCHANGED <<lib, cmd, occupied, ext, fs, proc, loc, result, log>>

\* The runtime the command runs on: the main flow parked in the synchronous
\* recv() of line 627 does not keep spawned tasks from being polled.
blocking_wait_starves_tasks == FALSE

TaskCanRun == ~(pc = "ir_recv" /\ blocking_wait_starves_tasks)

\* lines 598-600: the task registers for SIGINT and waits; a failed
\* registration ends the task through `?`, dropping running_sender.
SignalTaskRegister ==
    /\ ir.task = "spawned"
    /\ TaskCanRun
    /\ \/ ir' = [ir EXCEPT !.task = "waiting"]
       \/ ir' = [ir EXCEPT !.task = "failed", !.sender = "dropped"]
    /\ UNCHANGED <<lib, cmd, pc, occupied, ext, fs, proc, loc, result, log>>

\* The terminal's SIGINT reaches the foreground process group: the broker
\* and the deployment manager spawned by this invocation exit on it; the
\* host runs in its own process group (wasmcloud.rs 250) and does not get it.
terminal_sigint ==
    proc' = [proc EXCEPT !.nats = IF @ = "running" THEN "stopped" ELSE @,
                         !.wadm = IF @ = "running" THEN "stopped" ELSE @]

\* The user presses Ctrl+C while the interactive runner is installed.
CtrlC ==
    /\ pc \in {"ir_recv", "ir_abort", "ir_kill"}
    /\ ir.task \in {"waiting", "signalled", "done"}
    /\ ir.ctrlc < MaxCtrlC
    /\ ir' = [ir EXCEPT !.ctrlc = @ + 1,
                        !.task = IF @ = "waiting" THEN "signalled" ELSE @]
    /\ terminal_sigint
    /\ Emit("ctrl_c")
    /\ UNCHANGED <<lib, cmd, pc, occupied, ext, fs, loc, result>>

\* Mutant of SignalTaskHandle: the task flips the flag, sends nothing and
\* goes back to waiting for the next signal.
SignalTaskHandle_NoSend ==
    /\ ir.task = "signalled"
    /\ TaskCanRun
    /\ ir' = [ir EXCEPT !.running = FALSE, !.task = "waiting"]
    /\ UNCHANGED <<lib, cmd, pc, occupied, ext, fs, proc, loc, result, log>>

\* lines 601-607: the body of the task after ctrl_c() resolved; the task
\* then ends, dropping running_sender.
SignalTaskHandle ==
    /\ ir.task = "signalled"
    /\ TaskCanRun
    /\ IF ir.running
       THEN /\ ir' = [ir EXCEPT !.running = FALSE, !.chan = @ + 1,
                                !.task = "done", !.sender = "dropped"]
            /\ UNCHANGED log
       ELSE /\ ir' = [ir EXCEPT !.task = "done", !.sender = "dropped"]
            /\ Emit("warn_repeated_ctrl_c")
    /\ UNCHANGED <<lib, cmd, pc, occupied, ext, fs, proc, loc, result>>

\* line 627: `let _ = running_receiver.recv();` returns on a message, or
\* with a discarded RecvError once the sender is dropped.
Recv ==
    /\ pc = "ir_recv"
    /\ \/ /\ ir.chan > 0
          /\ ir' = [ir EXCEPT !.chan = @ - 1]
       \/ /\ ir.chan = 0
          /\ ir.sender = "dropped"
          /\ UNCHANGED ir
    /\ pc' = "ir_abort"
    /\ UNCHANGED <<lib, cmd, occupied, ext, fs, proc, loc, result, log>>

\* Mutant of AbortDrain: the drain task is left running.
AbortDrain_Skip ==
    /\ pc = "ir_abort"
    /\ pc' = "ir_kill"
    /\ UNCHANGED <<lib, cmd, occupied, ext, fs, proc, loc, ir, result, log>>

\* lines 630-632: `if let Some(handle) = handle { handle.abort() }`.
AbortDrain ==
    /\ pc = "ir_abort"
    /\ IF ir.drain # "none"
       THEN /\ ir' = [ir EXCEPT !.drain = "aborted"]
            /\ Emit("abort_drain")
       ELSE UNCHANGED <<ir, log>>
    /\ pc' = "ir_kill"
    /\ UNCHANGED <<lib, cmd, occupied, ext, fs, proc, loc, result>>

\* Mutant of KillHost: the runner returns Ok without killing the child.
KillHost_NoKill ==
    /\ pc = "ir_kill"
    /\ Emit("kill_host_ok")
    /\ pc' = "remove_wadm_pid"
    /\ UNCHANGED <<lib, cmd, occupied, ext, fs, proc, loc, ir, result>>

\* Mutant of KillHost: a failed kill is tried once more.
KillHost_Retry ==
    /\ pc = "ir_kill"
    /\ \/ /\ proc' = [proc EXCEPT !.host = "stopped", !.host_up = FALSE]
          /\ Emit("kill_host_ok")
          /\ pc' = "remove_wadm_pid"
          /\ UNCHANGED result
       \/ /\ Emit("kill_host_err")
          /\ IF \E i \in DOMAIN log : log[i] = "kill_host_err"
             THEN Return(Err("KillFailed"))
             ELSE UNCHANGED <<pc, result>>
          /\ UNCHANGED proc
    /\ UNCHANGED <<lib, cmd, occupied, ext, fs, loc, ir>>

\* line 634: `wasmcloud_child.kill().await?;`, and line 500's `?`.
KillHost ==
    /\ pc = "ir_kill"
    /\ \/ /\ proc' = [proc EXCEPT !.host = "stopped", !.host_up = FALSE]
          /\ Emit("kill_host_ok")
          /\ pc' = "remove_wadm_pid"
          /\ UNCHANGED result
       \/ /\ Emit("kill_host_err")
          /\ Return(Err("KillFailed"))
          /\ UNCHANGED proc
    /\ UNCHANGED <<lib, cmd, occupied, ext, fs, loc, ir>>

\* line 509: `tokio::fs::remove_file(wadm.pid).await?;`, then Ok (line 542).
RemoveWadmPid ==
    /\ pc = "remove_wadm_pid"
    /\ IF fs.wadm_pid
       THEN /\ fs' = [fs EXCEPT !.wadm_pid = FALSE]
            /\ Return(Ok(success_output))
       ELSE /\ Return(Err("NotFound"))
            /\ UNCHANGED fs
    /\ UNCHANGED <<lib, cmd, occupied, ext, proc, loc, ir, log>>

Next ==
    \/ CreateInstallDir
    \/ SelectPort
    \/ NatsPreflight
    \/ EnsureNats
    \/ start_nats
    \/ StartNatsServer
    \/ NatsConnect
    \/ WadmStage
    \/ HostBinary
    \/ StopNats
    \/ KillWadm
    \/ HostStart
    \/ HostBoots
    \/ WaitForServer
    \/ PortTaken
    \/ Dispatch
    \/ InteractiveStart
    \/ SignalTaskRegister
    \/ CtrlC
    \/ SignalTaskHandle
    \/ Recv
    \/ AbortDrain
    \/ KillHost
    \/ RemoveWadmPid

Spec == Init /\ [][Next]_vars

\* Invocations without --detached that let the scan pick the port.
InteractiveInit ==
    /\ Init
    /\ ~cmd.detached
    /\ cmd.dashboard_port = NoPort

\* The scheduler polls a task that is ready, and the main flow takes its
\* next step when it can: recv() returns once a message or a disconnect is
\* there, abort() and kill() complete.
InteractiveFairness ==
    /\ WF_vars(SignalTaskHandle)
    /\ WF_vars(Recv)
    /\ WF_vars(AbortDrain)
    /\ WF_vars(KillHost)

FairSpec == InteractiveInit /\ [][Next]_vars /\ InteractiveFairness

\* ------------------------------------ run_wasmcloud_interactive by itself
\* The host child exits by itself.
HostExits ==
    /\ proc.host = "running"
    /\ proc' = [proc EXCEPT !.host = "exited", !.host_up = FALSE]
    /\ UNCHANGED <<lib, cmd, pc, occupied, ext, fs, loc, ir, result, log>>

\* run_wasmcloud_interactive is entered with a running host child whose
\* stderr is piped or goes to a file; a broker and a deployment manager of
\* this invocation may be running beside it.
RunnerInit ==
    /\ cmd \in {c \in PlainCommands : /\ c.dashboard_port = NoPort
                                       /\ c.nats_mode = "default"
                                       /\ ~c.start_only
                                       /\ check_version(c.wasmcloud_version).ok}
    /\ pc = "ir_start"
    /\ occupied = {}
    /\ ext = [broker |-> FALSE, wadm |-> FALSE, ctl_broker |-> FALSE]
    /\ proc \in [nats : {"none", "running"}, wadm : {"none", "running"},
                  host : {"running"}, host_up : BOOLEAN]
    /\ proc.wadm = "running" => ~cmd.disable_wadm
    /\ fs = [nats_pid |-> IF proc.nats = "running" THEN "own" ELSE "none",
             wadm_pid |-> proc.wadm = "running",
             host_bin |-> TRUE,
             host_pid |-> <<>>,
             wadm_log |-> proc.wadm = "running"]
    /\ loc = [ host_port |-> DEFAULT_DASHBOARD_PORT,
               nats_client_ok |-> proc.nats = "none",
               nats_bin |-> proc.nats = "running",
               wadm_process |-> proc.wadm = "running",
               pending |-> NoResult ]
    /\ ir = [ running |-> TRUE, chan |-> 0, sender |-> "none",
              task |-> "none", drain |-> "none", ctrlc |-> 0 ]
    /\ result = NoResult
    /\ log = <<>>
    /\ lib = LibIdle

RunnerNext ==
    \/ InteractiveStart
    \/ SignalTaskRegister
    \/ CtrlC
    \/ SignalTaskHandle
    \/ Recv
    \/ AbortDrain
    \/ KillHost
    \/ HostExits

RunnerSpec == RunnerInit /\ [][RunnerNext]_vars

\* Invocations with and without a control-channel override, a broker
\* possibly listening at the overridden address, all dashboard ports free.
CtlInit ==
    /\ InitFrom(CtlCommands, BOOLEAN)
    /\ occupied = {}

CtlSpec == CtlInit /\ [][Next]_vars

\* ------------------------------------------- wash-lib called directly
\* How many provisioning calls a caller makes in a row.
MaxCalls == 2

\* How many leading 'v' characters a version string handed to
\* check_version may carry.
MaxV == 2

\* Version strings handed to check_version: releases and prereleases around
\* the minimum, and texts that are no semantic version.
CheckVersions ==
    {VersionString(vs, <<sem>>) :
        vs \in 0..MaxV,
        sem \in [major : 0..1, minor : {0, 62, 63, 64}, patch : 0..1, pre : BOOLEAN]}
    \cup {VersionString(vs, <<>>) : vs \in 0..MaxV}

\* A caller of the library with some binaries already installed.
LibInit ==
    /\ pc = "lib"
    /\ cmd = CHOOSE c \in Commands : TRUE
    /\ occupied \in SUBSET Ports
    /\ ext = [broker |-> FALSE, wadm |-> FALSE, ctl_broker |-> FALSE]
    /\ fs = [nats_pid |-> "none", wadm_pid |-> FALSE, host_bin |-> FALSE, host_pid |-> <<>>,
             wadm_log |-> FALSE]
    /\ proc = [nats |-> "none", wadm |-> "none", host |-> "none", host_up |-> FALSE]
    /\ loc = [ host_port |-> NoPort, nats_client_ok |-> FALSE, nats_bin |-> FALSE,
               wadm_process |-> FALSE, pending |-> NoResult ]
    /\ ir = [ running |-> TRUE, chan |-> 0, sender |-> "none",
              task |-> "none", drain |-> "none", ctrlc |-> 0 ]
    /\ result = NoResult
    /\ log = <<>>
    /\ \E installed \in SUBSET LibVersions :
         lib = [LibIdle EXCEPT
                  !.root = [files |-> [p \in LibPaths |->
                                         IF p.dir \in installed THEN "full" ELSE "none"],
                            dirs |-> installed]]

\* One call of a provisioning function, with what it did.
Call(op, version, http, did) ==
    [op |-> op, version |-> version,
     existed |-> Exists(lib.root, bin_path(version)),
     resp |-> IF did.requests # <<>> /\ http.status # NoResponse
              THEN <<http.status>> ELSE <<>>,
     io |-> IF did.requests # <<>> /\ http.status = StatusOK
            THEN <<http.io>> ELSE <<>>,
     ret |-> did.ret, requests |-> did.requests, writes |-> did.writes,
     before |-> lib.root, after |-> did.root]

Record(op, version, http, did) ==
    lib' = [lib EXCEPT !.root = did.root,
                       !.requests = @ \o did.requests,
                       !.writes = @ \o did.writes,
                       !.calls = Append(@, Call(op, version, http, did))]

\* ensure_wasmcloud(version, dir) called by a user of the library.
LibEnsure ==
    /\ pc = "lib"
    /\ lib.checked = <<>>
    /\ lib.launches = <<>>
    /\ Len(lib.calls) < MaxCalls
    /\ \E version \in LibVersions, http \in HttpOutcomes :
         Record("ensure", version, http, ensure_wasmcloud(lib.root, version, http))
    /\ UNCHANGED <<cmd, pc, occupied, ext, fs, proc, loc, ir, result, log>>

\* check_version(version) applied to one version string.
LibCheckVersion ==
    /\ pc = "lib"
    /\ lib.checked = <<>>
    /\ lib.calls = <<>>
    /\ lib.launches = <<>>
    /\ \E version \in CheckVersions :
         lib' = [lib EXCEPT !.checked = <<[version |-> version,
                                           ret |-> check_version(version)]>>]
    /\ UNCHANGED <<cmd, pc, occupied, ext, fs, proc, loc, ir, result, log>>

\* How many hosts a caller tries to start.
MaxLaunches == 2

\* The ports that accept a connection: those of other processes and those
\* of the hosts started here that have booted.
LibListening ==
    occupied \cup {lib.hosts[i].port : i \in {k \in DOMAIN lib.hosts : lib.hosts[k].up}}

\* start_wasmcloud_host(bin_path, stdout, stderr, env_vars) called by a
\* user of the library; on unix the child leads a new process group
\* (line 250).
LibStartHost ==
    /\ pc = "lib"
    /\ lib.checked = <<>>
    /\ lib.calls = <<>>
    /\ Len(lib.launches) < MaxLaunches
    /\ \E env_vars \in {<<>>} \cup {<<p>> : p \in Ports}, spawn_ok \in BOOLEAN :
         LET started == start_wasmcloud_host(env_vars, LibListening, spawn_ok) IN
         lib' = [lib EXCEPT
                   !.launches = Append(@, [env_vars |-> env_vars,
                                           listening |-> LibListening,
                                           spawn_ok |-> spawn_ok,
                                           ret |-> started]),
                   !.hosts = IF started.spawned
                             THEN Append(@, [port |-> started.port, state |-> "running",
                                             up |-> FALSE, kids |-> "none",
                                             killed |-> FALSE])
                             ELSE @]
    /\ UNCHANGED <<cmd, pc, occupied, ext, fs, proc, loc, ir, result, log>>

\* A started host boots: it may spawn children of its own, which stay in
\* its process group, and it listens on its dashboard port.
LibHostBoots ==
    /\ pc = "lib"
    /\ \E i \in DOMAIN lib.hosts, kids \in {"none", "running"} :
         /\ lib.hosts[i].state = "running"
         /\ ~lib.hosts[i].up
         /\ lib.hosts[i].port \notin LibListening
         /\ lib' = [lib EXCEPT !.hosts[i].up = TRUE, !.hosts[i].kids = kids]
    /\ UNCHANGED <<cmd, pc, occupied, ext, fs, proc, loc, ir, result, log>>

\* kill() on the handle start_wasmcloud_host returned.  The handle is the
\* inner Child of the group child (`group_spawn()?.into_inner()`, line 250):
\* its kill signals the child's pid, not the process group.
kill_child(host) ==
    [host EXCEPT !.state = "stopped", !.up = FALSE, !.killed = TRUE]

\* The caller kills a host through its handle (as mod.rs line 634 does).
LibKillHost ==
    /\ pc = "lib"
    /\ \E i \in DOMAIN lib.hosts :
         /\ lib.hosts[i].state = "running"
         /\ lib' = [lib EXCEPT !.hosts[i] = kill_child(@)]
    /\ UNCHANGED <<cmd, pc, occupied, ext, fs, proc, loc, ir, result, log>>

LibNext ==
    \/ LibEnsure
    \/ LibCheckVersion
    \/ LibStartHost
    \/ LibHostBoots
    \/ LibKillHost

LibSpec == LibInit /\ [][LibNext]_vars

\* ------------------------------------------------- the merged host options
\* Option<T>: None is the empty sequence, Some(v) the sequence of v.
Option(S) == {<<>>} \cup {<<v>> : v \in S}

\* Mutant of unwrap_or: the override is dropped.
unwrap_or_Default(opt, default) == default

\* Option::unwrap_or / unwrap_or_else of lines 338-364.
unwrap_or(opt, default) == IF opt = <<>> THEN default ELSE opt[1]

\* Hosts and ports a caller may name for the broker and for a channel.
NatsHosts == {"127.0.0.1", "nats.example"}
NatsPorts == {4222, 4223}

\* The channel options of WasmcloudOpts.
ChannelOpts ==
    [ ctl_host : Option(NatsHosts), ctl_port : Option(NatsPorts),
      rpc_host : Option(NatsHosts), rpc_port : Option(NatsPorts),
      prov_rpc_host : Option(NatsHosts), prov_rpc_port : Option(NatsPorts) ]

\* --nats-host and --nats-port of NatsOpts.
NatsOpts == [nats_host : NatsHosts, nats_port : NatsPorts]

\* lines 336-366: the WasmcloudOpts from which the host environment is made.
merge_wasmcloud_opts(wasmcloud_opts, nats_opts, host_port) ==
    [ dashboard_port |-> <<host_port>>,
      ctl_host |-> <<unwrap_or(wasmcloud_opts.ctl_host, nats_opts.nats_host)>>,
      ctl_port |-> <<unwrap_or(wasmcloud_opts.ctl_port, nats_opts.nats_port)>>,
      rpc_host |-> <<unwrap_or(wasmcloud_opts.rpc_host, nats_opts.nats_host)>>,
      rpc_port |-> <<unwrap_or(wasmcloud_opts.rpc_port, nats_opts.nats_port)>>,
      prov_rpc_host |-> <<unwrap_or(wasmcloud_opts.prov_rpc_host, nats_opts.nats_host)>>,
      prov_rpc_port |-> <<unwrap_or(wasmcloud_opts.prov_rpc_port, nats_opts.nats_port)>> ]

\* handle_up called with every combination of channel overrides, shared
\* broker address and dashboard port; the other flags do not enter the merge.
OptsCommands ==
    {c \in Commands : /\ c.detached
                      /\ c.nats_mode = "default"
                      /\ ~c.disable_wadm
                      /\ ~c.start_only
                      /\ check_version(c.wasmcloud_version).ok}

\* handle_up is entered; lib holds the channel options and NatsOpts of the
\* command and the merged options once they are built.
OptsInit ==
    /\ lib \in [wasmcloud_opts : ChannelOpts, nats_opts : NatsOpts, merged : {<<>>}]
    /\ cmd \in OptsCommands
    /\ cmd.ctl_override = (lib.wasmcloud_opts.ctl_host # <<>>
                             \/ lib.wasmcloud_opts.ctl_port # <<>>)
    /\ pc = "start"
    /\ occupied \in SUBSET Ports
    /\ ext = [broker |-> FALSE, wadm |-> FALSE, ctl_broker |-> FALSE]
    /\ fs = [nats_pid |-> "none", wadm_pid |-> FALSE, host_bin |-> FALSE, host_pid |-> <<>>,
             wadm_log |-> FALSE]
    /\ proc = [nats |-> "none", wadm |-> "none", host |-> "none", host_up |-> FALSE]
    /\ loc = [ host_port |-> NoPort, nats_client_ok |-> FALSE, nats_bin |-> FALSE,
               wadm_process |-> FALSE, pending |-> NoResult ]
    /\ ir = [ running |-> TRUE, chan |-> 0, sender |-> "none",
              task |-> "none", drain |-> "none", ctrlc |-> 0 ]
    /\ result = NoResult
    /\ log = <<>>

\* lines 336-369, right after the port was selected.
MergeOpts ==
    /\ pc = "preflight"
    /\ lib.merged = <<>>
    /\ lib' = [lib EXCEPT !.merged = <<merge_wasmcloud_opts(lib.wasmcloud_opts,
                                                            lib.nats_opts,
                                                            loc.host_port)>>]
    /\ UNCHANGED <<cmd, pc, occupied, ext, fs, proc, loc, ir, result, log>>

OptsNext ==
    \/ CreateInstallDir
    \/ SelectPort
    \/ MergeOpts

OptsSpec == OptsInit /\ [][OptsNext]_vars

\* ================================================================ claims
InLog(e) == \E i \in DOMAIN log : log[i] = e

Before(a, b) ==
    \A j \in DOMAIN log : log[j] = b => \E i \in 1..(j - 1) : log[i] = a

OwnRunning == {p \in {"nats", "wadm", "host"} : proc[p] = "running"}

StopNatsAttempted == InLog("stop_nats_ok") \/ InLog("stop_nats_err")

\* The errors the specification calls fatal.
FatalErrs == {"NatsConnect", "LeafnodeRemote", "PortOccupied", "NoFreePort",
              "HostDownload", "ReadinessTimeout", "StartOnlyMissing"}

HostStartErrs == {"HostSpawn", "HostPortInUse"}

\* C1: whenever handle_up returns a fatal error, no process spawned by this
\* invocation (broker, deployment manager, host) is still running.
C1_FatalErrorLeavesNothingRunning ==
    (Returned /\ result.kind = "Err" /\ result.err \in FatalErrs)
        => OwnRunning = {}

\* C2: the broker is stopped by a rollback only if this invocation launched
\* it (nats_bin is Some).
C2_BrokerStoppedOnlyIfLaunched ==
    InLog("stop_nats_ok") => loc.nats_bin

\* C3: when launching the host fails after this invocation started the
\* broker, handle_up returns with the deployment manager (if started) killed
\* first, the broker stopped second and no longer running, and the
\* host-start error as the result.
C3_HostStartFailureRollsBack ==
    (Returned /\ loc.nats_bin /\ loc.pending.err \in HostStartErrs)
        => /\ result = loc.pending
           /\ proc.nats = "stopped"
           /\ loc.wadm_process => (proc.wadm = "stopped"
                                   /\ Before("kill_wadm_ok", "stop_nats_ok"))

\* C4: a failed rollback step does not mask the original error (the result
\* is, or carries, the original error) and the remaining rollback steps are
\* still taken.
C4_RollbackFailureKeepsOriginalError ==
    (Returned /\ (InLog("kill_wadm_err") \/ InLog("stop_nats_err")))
        => /\ loc.pending.err \in {result.err, result.wraps}
           /\ (InLog("kill_wadm_err") /\ HostStartStopsNats) => StopNatsAttempted

ReadinessTimedOut ==
    "ReadinessTimeout" \in {loc.pending.err, result.err}

\* C5: on a readiness timeout handle_up stops the broker iff this invocation
\* started it, and the returned error names wasmcloud_<port>.log.
C5_TimeoutStopsOwnBrokerAndNamesLog ==
    (Returned /\ ReadinessTimedOut)
        => /\ StopNatsAttempted <=> loc.nats_bin
           /\ result.kind = "Err"
           /\ result.logPort = loc.host_port
           /\ loc.host_port \in Ports

MissingBinaryFailure ==
    "StartOnlyMissing" \in {loc.pending.err, result.err}

StartOnlyNeverDownloadsNorSpawns ==
    /\ cmd.start_only => ~InLog("download_host")
    /\ (cmd.start_only /\ ~fs.host_bin)
           => /\ proc.host = "none"
              /\ Returned => result.kind = "Err"

WadmFailed == InLog("warn_wadm_download") \/ InLog("warn_wadm_start")

RemainingStagesSucceeded ==
    /\ InLog("host_ready")
    /\ cmd.detached => fs.host_pid # <<>>
    /\ ~cmd.detached => InLog("kill_host_ok")

\* C7: a failure to download or start the deployment manager is non-fatal:
\* a warning is printed, no deployment-manager process is kept, and handle_up
\* reports success when the remaining stages succeed.
C7_WadmFailureIsNonFatal ==
    (Returned /\ WadmFailed /\ RemainingStagesSucceeded)
        => /\ result.kind = "Ok"
           /\ ~loc.wadm_process

\* C8: in interactive mode, once the runner has returned, handle_up removes
\* wadm.pid and returns success, in every configuration.
C8_InteractiveReturnsSuccess ==
    (Returned /\ ~cmd.detached /\ InLog("kill_host_ok"))
        => /\ result.kind = "Ok"
           /\ ~fs.wadm_pid

C10_RunnerExitsOnlyAfterCancel ==
    (pc \in {"ir_abort", "ir_kill", "remove_wadm_pid"} \/ InLog("abort_drain"))
        => ir.ctrlc > 0
\* ---------------------------------------------------------------- C11
RunnerLeft == pc \in {"remove_wadm_pid", "done"}

KillAttempted == InLog("kill_host_ok") \/ InLog("kill_host_err")

\* The runner is past line 634: the drain task was aborted, kill() was
\* called on the child and, when it returned Ok, the child has exited.
RunnerReturnedAfterKill ==
    /\ RunnerLeft
    /\ InLog("abort_drain")
    /\ KillAttempted
    /\ InLog("kill_host_ok") => proc.host = "stopped"

\* C11: once a cancellation request has arrived during an interactive run,
\* the main flow blocked in recv() is eventually woken, the drain task is
\* aborted, the child is sent the kill and awaited, and
\* run_wasmcloud_interactive returns.
C11_CancellationEventuallyReturns == (ir.ctrlc > 0) ~> RunnerReturnedAfterKill

C11_Witness ==
    /\ ir.ctrlc > 0
    /\ pc = "remove_wadm_pid"
    /\ RunnerReturnedAfterKill
    /\ ir.task = "done"
\* ---------------------------------------------------------------- C12
\* C12: a second cancellation request that arrives while the first is being
\* processed is logged by the signal-handler task as the 'Repeated CTRL+C'
\* warning (stated at the return of handle_up, when the task has ended).
C12_RepeatedCtrlCIsWarned ==
    (Returned /\ ir.ctrlc >= 2 /\ ir.task = "done") => InLog("warn_repeated_ctrl_c")

\* ---------------------------------------------------------------- C13
Count(e) == Cardinality({i \in DOMAIN log : log[i] = e})

\* C13: in one interactive run kill() is called on the host child at most
\* once, however many cancellation requests arrive and however they
\* interleave with the main flow.
C13_KillSentAtMostOnce == Count("kill_host_ok") + Count("kill_host_err") <= 1

C13_Witness ==
    /\ ir.ctrlc >= 2
    /\ KillAttempted
    /\ \E i, j \in DOMAIN log :
         /\ i < j
         /\ log[i] = "ctrl_c"
         /\ log[j] = "ctrl_c"
         /\ \E k \in DOMAIN log : j < k /\ log[k] \in {"kill_host_ok", "kill_host_err"}
\* ---------------------------------------------------------------- C14
DetachedSuccess == Returned /\ cmd.detached /\ result.kind = "Ok"

\* C14: a detached invocation returns success only after the readiness
\* probe succeeded; the marker file then holds the host version string and
\* the payload holds success, wasmcloud_url, wasmcloud_log, nats_url and
\* kill_cmd = "wash down".
C14_DetachedSuccessOutput ==
    DetachedSuccess =>
        /\ InLog("host_ready")
        /\ Before("spawn_host", "host_ready")
        /\ fs.host_pid = <<cmd.wasmcloud_version>>
        /\ result.payload.success
        /\ result.payload.wasmcloud_url = loc.host_port
        /\ result.payload.wasmcloud_log = loc.host_port
        /\ loc.host_port \in Ports
        /\ result.payload.nats_url = "nats_listen_address"
        /\ result.payload.kill_cmd = "wash down"

C14_Witness ==
    /\ DetachedSuccess
    /\ InLog("host_ready")
    /\ fs.host_pid = <<cmd.wasmcloud_version>>
    /\ result.payload.kill_cmd = "wash down"

\* ---------------------------------------------------------------- C15
SpawnedHere(p) ==
    CASE p = "nats" -> InLog("spawn_nats")
      [] p = "wadm" -> InLog("spawn_wadm")
      [] p = "host" -> InLog("spawn_host")

\* C15: when a detached invocation returns success, every process it
\* spawned (broker, deployment manager, host) is still running.
C15_DetachedLeavesProcessesRunning ==
    DetachedSuccess =>
        \A p \in {"nats", "wadm", "host"} : SpawnedHere(p) => proc[p] = "running"

C15_Witness ==
    /\ DetachedSuccess
    /\ \A p \in {"nats", "wadm", "host"} : SpawnedHere(p) /\ proc[p] = "running"
\* ---------------------------------------------------------------- C16
\* C16: when the first connection to the broker succeeded and no remote URL
\* with credentials was supplied, handle_up neither provisions nor spawns a
\* broker and writes no nats.pid.
C16_ReachableBrokerIsNotProvisioned ==
    (loc.nats_client_ok /\ ~supplied_remote_credentials) =>
        /\ ~InLog("ensure_nats")
        /\ ~InLog("spawn_nats")
        /\ proc.nats = "none"
        /\ fs.nats_pid # "own"
        /\ ~loc.nats_bin

C16_Witness ==
    /\ loc.nats_client_ok
    /\ cmd.nats_mode = "default"
    /\ InLog("spawn_host")
    /\ proc.nats = "none"

\* ---------------------------------------------------------------- C17
PastBrokerStage ==
    pc \notin {"start", "select_port", "preflight", "nats_stage", "start_nats",
               "start_nats_server", "nats_connect", "done"}

\* C17: with --nats-connect-only, when no broker can be connected to,
\* handle_up gets no further than the connection of line 397, returns its
\* error and has started no broker, no deployment manager and no host.
C17_ConnectOnlyWithoutBrokerFails ==
    (connect_only /\ ~ext.broker) =>
        /\ ~PastBrokerStage
        /\ \A p \in {"nats", "wadm", "host"} : proc[p] = "none"
        /\ ~InLog("ensure_nats")
        /\ Returned => result.kind = "Err"

C17_Witness ==
    /\ connect_only
    /\ ~ext.broker
    /\ Returned
    /\ result = Err("NatsConnect")
\* ---------------------------------------------------------------- C18
\* C18: with a remote URL and credentials, the local broker is spawned only
\* after the authenticated connection to the remote succeeded; when that
\* connection fails, handle_up returns the error with no process spawned
\* and no nats.pid written.
C18_RemotePreflightPrecedesBroker ==
    /\ supplied_remote_credentials => Before("remote_preflight_ok", "spawn_nats")
    /\ InLog("remote_preflight_err") =>
          /\ supplied_remote_credentials
          /\ result = Err("LeafnodeRemote")
          /\ Returned
          /\ \A p \in {"nats", "wadm", "host"} : proc[p] = "none"
          /\ ~InLog("spawn_nats")
          /\ fs.nats_pid # "own"

C18_Witness ==
    /\ supplied_remote_credentials
    /\ InLog("remote_preflight_ok")
    /\ InLog("spawn_nats")
    /\ proc.nats = "running"
    /\ fs.nats_pid = "own"
\* ---------------------------------------------------------------- C19
\* The step of line 333 with a supplied port.
SuppliedPortStep ==
    (pc = "select_port" /\ cmd.dashboard_port # NoPort) =>
        IF cmd.dashboard_port \in occupied
        THEN /\ result' = ErrPort("PortOccupied", cmd.dashboard_port)
             /\ pc' = "done"
             /\ loc'.host_port = NoPort
             /\ proc' = proc
             /\ \A p \in {"nats", "wadm", "host"} : proc[p] = "none"
             /\ log' = <<>>
        ELSE /\ loc'.host_port = cmd.dashboard_port
             /\ pc' = "preflight"
             /\ result' = NoResult

\* The host port, once chosen, is the supplied one.
SuppliedPortKept ==
    (cmd.dashboard_port # NoPort /\ loc.host_port # NoPort) =>
        loc.host_port = cmd.dashboard_port

\* C19: with an explicit dashboard port that already has a listener,
\* handle_up fails at once with an error naming that port, substitutes no
\* other port and spawns nothing; with the port free, exactly that port is
\* the host port from then on.
C19_SuppliedPortIsCheckedNotReplaced == [][SuppliedPortStep /\ SuppliedPortKept']_vars

C19_Witness ==
    /\ Returned
    /\ cmd.dashboard_port \in occupied
    /\ result = ErrPort("PortOccupied", cmd.dashboard_port)
    /\ log = <<>>

\* ---------------------------------------------------------------- C20
FreePorts == Ports \ occupied

\* The step of line 333 without a supplied port.
ScanStep ==
    (pc = "select_port" /\ cmd.dashboard_port = NoPort) =>
        IF FreePorts = {}
        THEN /\ result' = Err("NoFreePort")
             /\ pc' = "done"
        ELSE /\ loc'.host_port \in FreePorts
             /\ \A q \in Ports : q < loc'.host_port => q \in occupied
             /\ pc' = "preflight"
             /\ result' = NoResult

\* C20: with no supplied port, ensure_open_port yields the lowest free port
\* of the scanned inclusive range (every lower port of the range is
\* occupied), and the no-free-port error exactly when every port of the
\* range is occupied.
C20_ScanPicksLowestFreePort == [][ScanStep]_vars

C20_Witness ==
    /\ cmd.dashboard_port = NoPort
    /\ pc = "preflight"
    /\ loc.host_port = DEFAULT_DASHBOARD_PORT + PortSpan
    /\ occupied = Ports \ {loc.host_port}
\* ---------------------------------------------------------------- C23
\* Calls i < j of ensure with the same arguments, the first successful.
EnsuredTwice(i, j) ==
    /\ i < j
    /\ lib.calls[i].op = "ensure"
    /\ lib.calls[j].op = "ensure"
    /\ lib.calls[i].version = lib.calls[j].version
    /\ lib.calls[i].ret.ok

Downloads(i, j) == Len(lib.calls[i].requests) + Len(lib.calls[j].requests)

\* C23 as stated: the second ensure returns the same path without a
\* request, and the two calls together perform exactly one download.
C23_Original ==
    \A i, j \in DOMAIN lib.calls :
        EnsuredTwice(i, j) =>
            /\ lib.calls[j].ret = lib.calls[i].ret
            /\ lib.calls[j].requests = <<>>
            /\ Downloads(i, j) = 1

\* C23: after a successful ensure, a later ensure with the same arguments
\* returns the identical path and issues no request; together they
\* download once when the binary was absent before the first call and not
\* at all when it was already there.
C23_EnsureIsIdempotent ==
    \A i, j \in DOMAIN lib.calls :
        EnsuredTwice(i, j) =>
            /\ lib.calls[j].ret = lib.calls[i].ret
            /\ lib.calls[j].ret.path = bin_path(lib.calls[i].version)
            /\ lib.calls[j].requests = <<>>
            /\ Downloads(i, j) = IF lib.calls[i].existed THEN 0 ELSE 1

C23_Witness ==
    /\ Len(lib.calls) >= 2
    /\ EnsuredTwice(1, 2)
    /\ ~lib.calls[1].existed
    /\ lib.calls[1].requests # <<>>
    /\ lib.calls[2].ret.ok
    /\ lib.calls[2].requests = <<>>

\* ---------------------------------------------------------------- C24
\* C24: for every version string, when the file already exists at
\* install_root/<version>/<binary-name>, ensure returns that path at once:
\* the version is not examined and no request is made.
C24_ExistingBinaryIsReturnedUnchecked ==
    \A i \in DOMAIN lib.calls :
        (lib.calls[i].op = "ensure" /\ lib.calls[i].existed) =>
            /\ lib.calls[i].ret = ProvOk(bin_path(lib.calls[i].version))
            /\ lib.calls[i].requests = <<>>

\* ---------------------------------------------------------------- C25
\* C25: a response whose status is not 200 makes provisioning fail with an
\* error naming the URL and the status, and leaves the install root as it
\* was: no directory, no file, and the existence probe still finds nothing.
C25_BadStatusFailsWithoutTrace ==
    \A i \in DOMAIN lib.calls :
        LET c == lib.calls[i] IN
        (c.resp # <<>> /\ c.resp[1] # 200) =>
            /\ ~c.ret.ok
            /\ c.ret.err = "HostDownload"
            /\ c.ret.url = <<wasmcloud_url(c.version)>>
            /\ c.ret.status = c.resp[1]
            /\ c.after = c.before
            /\ c.writes = <<>>
            /\ find_wasmcloud_binary(c.after, c.version) = <<>>

C25_Witness ==
    /\ lib.calls # <<>>
    /\ lib.calls[1].resp = <<404>>
    /\ ~lib.calls[1].ret.ok
    /\ lib.calls[1].ret.status = 404
    /\ lib.root = lib.calls[1].before

\* ---------------------------------------------------------------- C26
\* C26: two different versions provisioned into one install root are both
\* present afterwards at distinct version-scoped paths, and no call creates,
\* truncates or changes the file of a version other than its own.
C26_VersionsAreIsolated ==
    /\ \A j \in DOMAIN lib.calls :
          \A p \in LibPaths :
              p # bin_path(lib.calls[j].version) =>
                  /\ lib.calls[j].after.files[p] = lib.calls[j].before.files[p]
                  /\ \A k \in DOMAIN lib.calls[j].writes : lib.calls[j].writes[k] # p
    /\ \A i, j \in DOMAIN lib.calls :
          (i < j /\ lib.calls[i].ret.ok /\ lib.calls[j].ret.ok
                 /\ lib.calls[i].version # lib.calls[j].version) =>
              /\ lib.calls[i].ret.path # lib.calls[j].ret.path
              /\ lib.calls[i].ret.path.dir = lib.calls[i].version
              /\ lib.calls[j].ret.path.dir = lib.calls[j].version
              /\ Exists(lib.calls[j].after, lib.calls[i].ret.path)
              /\ Exists(lib.calls[j].after, lib.calls[j].ret.path)

C26_Witness ==
    /\ Len(lib.calls) >= 2
    /\ lib.calls[1].ret.ok
    /\ lib.calls[2].ret.ok
    /\ lib.calls[1].writes # <<>>
    /\ lib.calls[2].writes # <<>>
    /\ lib.calls[1].version # lib.calls[2].version
    /\ lib.root.files[lib.calls[1].ret.path] = "full"
    /\ lib.root.files[lib.calls[2].ret.path] = "full"

\* ---------------------------------------------------------------- C27
\* The text of a version string after its leading 'v's is a semantic
\* version without prerelease tag.
IsRelease(version) == version.sem # <<>> /\ ~version.sem[1].pre
IsPrerelease(version) == version.sem # <<>> /\ version.sem[1].pre

\* Position of a release in the order of versions (minor, patch < 100).
Rank(sem) == sem.major * 10000 + sem.minor * 100 + sem.patch

\* C27: a version string that parses (after stripping leading 'v') and has
\* no prerelease tag is accepted by check_version exactly when it is
\* >= 0.63.0, and a rejection names the requested version and the minimum.
C27_ReleasesAreGatedAtMinimum ==
    \A k \in DOMAIN lib.checked :
        LET c == lib.checked[k] IN
        IsRelease(c.version) =>
            /\ c.ret.ok <=> Rank(c.version.sem[1]) >= Rank(Version(0, 63, 0))
            /\ ~c.ret.ok => c.ret.names = {c.version, VersionString(0, <<Version(0, 63, 0)>>)}

C27_Witness ==
    /\ lib.checked # <<>>
    /\ IsRelease(lib.checked[1].version)
    /\ lib.checked[1].version.vs = 1
    /\ lib.checked[1].version.sem[1] = Version(0, 62, 1)
    /\ ~lib.checked[1].ret.ok

\* ---------------------------------------------------------------- C28
\* C28: check_version accepts every prerelease, also one numerically below
\* 0.63.0, and every string that is no semantic version.
C28_PrereleaseAndUnparsableAccepted ==
    \A k \in DOMAIN lib.checked :
        LET c == lib.checked[k] IN
        (IsPrerelease(c.version) \/ c.version.sem = <<>>) => c.ret = CheckOk

C28_Witness ==
    /\ lib.checked # <<>>
    /\ IsPrerelease(lib.checked[1].version)
    /\ Rank(lib.checked[1].version.sem[1]) < Rank(Version(0, 63, 0))
    /\ lib.checked[1].ret.ok
\* ---------------------------------------------------------------- C21
\* The port a launch is about: WASMCLOUD_DASHBOARD_PORT of its environment
\* map, 4000 when the map has none.
LaunchPort(l) == IF l.env_vars = <<>> THEN 4000 ELSE l.env_vars[1]

Spawns == {i \in DOMAIN lib.launches : lib.launches[i].ret.spawned}

\* C21: no host is spawned while its dashboard port accepts connections:
\* such a launch returns an error naming the port without spawning, and a
\* launch on a free port spawns the host (unless the spawn itself fails).
C21_NoSpawnOnOccupiedPort ==
    /\ \A i \in DOMAIN lib.launches :
          LET l == lib.launches[i] IN
          IF LaunchPort(l) \in l.listening
          THEN /\ ~l.ret.ok
               /\ ~l.ret.spawned
               /\ l.ret.err = "HostPortInUse"
               /\ l.ret.port = LaunchPort(l)
          ELSE /\ l.ret.ok <=> l.spawn_ok
               /\ l.ret.spawned <=> l.spawn_ok
               /\ l.ret.ok => l.ret.port = LaunchPort(l)
    /\ Len(lib.hosts) = Cardinality(Spawns)

C21_Witness ==
    /\ Len(lib.launches) >= 2
    /\ lib.launches[1].ret.ok
    /\ lib.launches[2].ret.err = "HostPortInUse"
    /\ lib.launches[2].env_vars = lib.launches[1].env_vars
    /\ Len(lib.hosts) = 1
    /\ lib.hosts[1].up

\* ---------------------------------------------------------------- C22
\* C22: the one kill issued through the handle of a host that was spawned
\* into its own process group ends the whole group, the children the host
\* spawned included.
C22_KillEndsProcessGroup ==
    \A i \in DOMAIN lib.hosts :
        lib.hosts[i].killed =>
            /\ lib.hosts[i].state = "stopped"
            /\ lib.hosts[i].kids # "running"
\* ---------------------------------------------------------------- C30
\* A broker listens at the merged control-channel address.
CtlUp ==
    \/ cmd.ctl_override /\ ext.ctl_broker
    \/ ~cmd.ctl_override /\ (ext.broker \/ proc.nats = "running")

\* The step of line 397; other programs may take ports meanwhile.
ConnectStep ==
    (pc = "nats_connect" /\ pc' # pc) =>
        IF CtlUp
        THEN /\ pc' = "wadm_stage"
             /\ log' = Append(log, "nats_connected")
        ELSE /\ pc' = "done"
             /\ result' = Err("NatsConnect")
             /\ proc' = proc
             /\ log' = log

AfterBroker == {"warn_wadm_download", "warn_wadm_start", "spawn_wadm",
                "download_host", "spawn_host"}

\* What the deployment manager and the host do comes after the connection.
NeedsConnection ==
    /\ \A e \in AfterBroker : Before("nats_connected", e)
    /\ (proc.wadm # "none" \/ proc.host # "none") => InLog("nats_connected")
    /\ result = Err("NatsConnect") =>
          /\ proc.wadm = "none"
          /\ proc.host = "none"
          /\ \A e \in AfterBroker : ~InLog(e)

\* C30: the deployment manager and the host are provisioned or spawned
\* only after a connection to the broker at the merged control-channel
\* host/port succeeded past the broker stage; when it fails, handle_up
\* returns that error at once.
C30_ConnectionGatesWadmAndHost == [][ConnectStep /\ NeedsConnection']_vars

C30_Witness ==
    /\ cmd.ctl_override
    /\ ext.ctl_broker
    /\ InLog("nats_connected")
    /\ InLog("spawn_wadm")
    /\ InLog("spawn_host")
\* ---------------------------------------------------------------- C29
\* The stage of handle_up a program position belongs to: 1 port selection,
\* 2 broker, 3 deployment manager, 4 host binary, 5 host spawn, 6 readiness
\* probe, 7 mode dispatch, 8 rollback and return.
Stage(p) ==
    CASE p \in {"start", "select_port"} -> 1
      [] p \in {"preflight", "nats_stage", "start_nats", "start_nats_server",
                "nats_connect"} -> 2
      [] p = "wadm_stage" -> 3
      [] p = "host_binary" -> 4
      [] p = "host_start" -> 5
      [] p = "wait_for_server" -> 6
      [] p \in {"dispatch", "ir_start", "ir_recv", "ir_abort", "ir_kill",
                "remove_wadm_pid"} -> 7
      [] OTHER -> 8

\* The stage that provisions, spawns or probes what event e reports.
EventStage(e) ==
    CASE e \in {"ensure_nats", "remote_preflight_ok", "remote_preflight_err",
                "spawn_nats", "nats_connected"} -> 2
      [] e \in {"warn_wadm_download", "warn_wadm_start", "spawn_wadm"} -> 3
      [] e = "download_host" -> 4
      [] e = "spawn_host" -> 5
      [] e = "host_ready" -> 6
      [] OTHER -> 0

\* A step never goes back a stage, enters the next stage only from the one
\* before it, and does the work of the stage it is in.
StageStep ==
    /\ Stage(pc') >= Stage(pc)
    /\ (Stage(pc') > Stage(pc) /\ Stage(pc') < 8) => Stage(pc') = Stage(pc) + 1
    /\ log' # log =>
          LET e == log'[Len(log')] IN
          EventStage(e) # 0 => EventStage(e) = Stage(pc)

\* The deployment manager is running, or the run goes on without it; a
\* Ctrl-C in the interactive runner may stop the broker it answered through.
WadmSettled ==
    \/ cmd.disable_wadm
    \/ is_wadm_running
    \/ InLog("spawn_wadm")
    \/ InLog("warn_wadm_download")
    \/ InLog("warn_wadm_start")

\* What has been achieved when a stage is under way.
StageReached ==
    /\ Stage(pc) \in 2..7 => loc.host_port # NoPort
    /\ Stage(pc) \in 3..7 => InLog("nats_connected")
    /\ Stage(pc) \in 4..6 => WadmSettled
    /\ Stage(pc) \in 6..7 => InLog("spawn_host")
    /\ Stage(pc) = 7 => InLog("host_ready")
    /\ Before("spawn_host", "host_ready")
    /\ (fs.host_pid # <<>> \/ ir.task # "none") => InLog("host_ready")

\* C29: the startup stages are strictly ordered: the port is selected
\* before the broker is provisioned or spawned, the broker stage is over
\* before the deployment-manager stage begins, the deployment manager is
\* running or given up on before the host binary is provisioned, the host is
\* spawned before the readiness probe, and the marker file and the
\* interactive runner come only after the probe succeeded.
C29_StagesAreOrdered == [][StageStep /\ StageReached']_vars

C29_Witness ==
    /\ Returned
    /\ result.kind = "Ok"
    /\ fs.host_pid # <<>>
    /\ InLog("spawn_nats")
    /\ InLog("spawn_wadm")
    /\ InLog("download_host")
    /\ InLog("host_ready")
\* ---------------------------------------------------------------- C31
\* What the deployment-manager stage reports once ensure_wadm was called.
WadmProvisioned ==
    Count("warn_wadm_download") + Count("warn_wadm_start") + Count("spawn_wadm")

\* C31: no stage is retried: one invocation spawns at most one broker, one
\* deployment manager and one host, and attempts at most one download of
\* each of the three binaries.
C31_NoStageTwice ==
    /\ Count("spawn_nats") <= 1
    /\ Count("spawn_wadm") <= 1
    /\ Count("spawn_host") <= 1
    /\ Count("ensure_nats") <= 1
    /\ WadmProvisioned <= 1
    /\ Count("download_host") <= 1

C31_Witness ==
    /\ Returned
    /\ result.kind = "Err"
    /\ result.err = "ReadinessTimeout"
    /\ Count("spawn_nats") = 1
    /\ Count("spawn_wadm") = 1
    /\ Count("download_host") = 1
    /\ Count("spawn_host") = 1
\* ---------------------------------------------------------------- C32
\* start_nats returns Ok: handle_up goes on to the connection of line 397.
StartNatsOk == pc = "start_nats_server" /\ pc' = "nats_connect"

\* C32: whenever start_nats returns success for a broker this invocation
\* launched, nats.pid in the install root holds the process id of exactly
\* that broker, and it stays there until a teardown removes it.
C32_NatsPidNamesOwnBroker ==
    [][/\ StartNatsOk => (proc'.nats = "running" /\ fs'.nats_pid = "own")
       /\ (loc'.nats_bin /\ ~StopNatsAttempted') => fs'.nats_pid = "own"]_vars

C32_Witness ==
    /\ loc.nats_bin
    /\ ext.broker
    /\ proc.nats = "running"
    /\ fs.nats_pid = "own"
    /\ pc = "nats_connect"
\* ---------------------------------------------------------------- C33
\* The control-plane query of the reachability check is answered.
WadmAnswers == (ext.broker \/ proc.nats = "running") /\ ext.wadm

\* A step that creates wadm.log, provisions or spawns the deployment manager.
TouchesWadm ==
    \/ fs'.wadm_log # fs.wadm_log
    \/ WadmProvisioned' # WadmProvisioned
    \/ (proc.wadm = "none" /\ proc'.wadm # "none")

\* C33: the deployment manager is provisioned and spawned only when the
\* caller did not disable it and the reachability check found none running;
\* otherwise nothing is downloaded, nothing spawned and no wadm.log created.
C33_WadmOnlyWhenWantedAndAbsent ==
    [][/\ TouchesWadm =>
             (pc = "wadm_stage" /\ ~cmd.disable_wadm /\ ~WadmAnswers)
       /\ (pc = "wadm_stage" /\ pc' # pc /\ (cmd.disable_wadm \/ WadmAnswers)) =>
             (pc' = "host_binary" /\ ~loc'.wadm_process /\ ~fs'.wadm_log)]_vars

C33_Witness ==
    /\ pc = "host_binary"
    /\ ~cmd.disable_wadm
    /\ WadmAnswers
    /\ proc.wadm = "none"
    /\ ~fs.wadm_log
    /\ WadmProvisioned = 0
\* ---------------------------------------------------------------- C34
\* What the caller asked for on one channel: the override when supplied,
\* the shared broker value otherwise.
Wanted(override, shared) ==
    IF override # <<>> THEN override ELSE <<shared>>

\* The port chosen by port selection: the supplied one, or the first port
\* of the range that refuses a connection.
ChosenPort ==
    IF cmd.dashboard_port # NoPort THEN cmd.dashboard_port
    ELSE CHOOSE p \in Ports :
           /\ p \notin occupied
           /\ \A q \in Ports : q < p => q \in occupied

\* C34: in the options handed to the host launcher, the host and the port
\* of each of the control, RPC and provider-RPC channels are the caller's
\* override when one was supplied and the shared broker host and port
\* otherwise, and the dashboard port is the one port selection chose.
C34_MergedOptions ==
    lib.merged # <<>> =>
        LET m == lib.merged[1]
            o == lib.wasmcloud_opts
            n == lib.nats_opts
        IN  /\ m.ctl_host = Wanted(o.ctl_host, n.nats_host)
            /\ m.ctl_port = Wanted(o.ctl_port, n.nats_port)
            /\ m.rpc_host = Wanted(o.rpc_host, n.nats_host)
            /\ m.rpc_port = Wanted(o.rpc_port, n.nats_port)
            /\ m.prov_rpc_host = Wanted(o.prov_rpc_host, n.nats_host)
            /\ m.prov_rpc_port = Wanted(o.prov_rpc_port, n.nats_port)
            /\ m.dashboard_port = <<ChosenPort>>

C34_Witness ==
    /\ lib.merged # <<>>
    /\ lib.wasmcloud_opts.ctl_host = <<"nats.example">>
    /\ lib.wasmcloud_opts.ctl_port = <<>>
    /\ lib.wasmcloud_opts.rpc_port = <<4223>>
    /\ lib.wasmcloud_opts.prov_rpc_host = <<>>
    /\ lib.nats_opts = [nats_host |-> "127.0.0.1", nats_port |-> 4222]
    /\ cmd.dashboard_port = NoPort
    /\ occupied = {DEFAULT_DASHBOARD_PORT}
\* ---------------------------------------------------------------- C35
\* C35: during the interactive shutdown the abort of the log-draining task
\* is requested before the terminate request is sent to the host child,
\* and a child whose stderr was not piped, so that no drain task exists,
\* is terminated all the same.
C35_AbortBeforeKill ==
    /\ ir.drain # "none" =>
          /\ Before("abort_drain", "kill_host_ok")
          /\ Before("abort_drain", "kill_host_err")
          /\ pc = "ir_kill" => ir.drain = "aborted"
    /\ (ir.drain = "none" /\ pc = "remove_wadm_pid") =>
          /\ ~InLog("abort_drain")
          /\ InLog("kill_host_ok")
          /\ proc.host = "stopped"

C35_Witness ==
    /\ host_stderr = "file"
    /\ ir.task # "none"
    /\ ir.drain = "none"
    /\ pc = "remove_wadm_pid"
    /\ proc.host = "stopped"
\* ---------------------------------------------------------------- C39
\* The runner is still at or before the recv() of line 627.
RunnerBlocked == pc \in {"ir_start", "ir_recv"} /\ result = NoResult

\* C39: the runner does not watch the host child: when the host exits by
\* itself and no cancellation request has arrived, the runner stays
\* blocked in recv() and handle_up has not returned.
C39_BlockedAfterHostExit ==
    [][(proc.host = "exited" /\ ir.ctrlc = 0 /\ RunnerBlocked) => RunnerBlocked']_vars
\* ---------------------------------------------------------------- C36
\* The call got as far as writing the file: the directory was made and
\* File::create was tried.
WriteAttempted(c) == c.io # <<>> /\ c.io # <<"mkdir_err">>

\* C36: a provisioning call returns Ok(path) only if, when it returns, a
\* file exists at install_root/<version>/<binary-name> and path is that
\* location; when the file is still absent after the write attempt the
\* call returns the not-installed error, never Ok.
C36_OkMeansFileExists ==
    \A i \in DOMAIN lib.calls :
        LET c == lib.calls[i] IN
        /\ c.ret.ok => /\ Exists(c.after, bin_path(c.version))
                       /\ c.ret.path = bin_path(c.version)
        /\ (WriteAttempted(c) /\ ~Exists(c.after, bin_path(c.version))) =>
              (~c.ret.ok /\ c.ret.err = "NotInstalled")

C36_Witness ==
    \E i \in DOMAIN lib.calls :
        /\ lib.calls[i].io = <<"create_err">>
        /\ ~Exists(lib.calls[i].after, bin_path(lib.calls[i].version))
        /\ lib.calls[i].ret.err = "NotInstalled"

\* ---------------------------------------------------------------- C37
\* The copy of the response body failed after the file was created.
CopyFailed(c) == c.io = <<"copy_err">>

\* C37: when streaming the body fails after the target file was created,
\* the call returns an error and the partial file stays where it is; the
\* next ensure for the same version returns that path as success, without
\* a download and without looking at the content.
C37_PartialFileIsTakenForInstalled ==
    \A i \in DOMAIN lib.calls :
        LET c == lib.calls[i] IN
        CopyFailed(c) =>
          /\ ~c.ret.ok
          /\ c.after.files[bin_path(c.version)] = "partial"
          /\ \A j \in DOMAIN lib.calls :
                (j = i + 1 /\ lib.calls[j].version = c.version) =>
                  /\ lib.calls[j].ret = ProvOk(bin_path(c.version))
                  /\ lib.calls[j].requests = <<>>
                  /\ lib.calls[j].writes = <<>>
                  /\ lib.calls[j].after.files[bin_path(c.version)] = "partial"

C37_Witness ==
    /\ Len(lib.calls) = 2
    /\ CopyFailed(lib.calls[1])
    /\ lib.calls[2].version = lib.calls[1].version
    /\ lib.calls[2].ret.ok
\* ---------------------------------------------------------------- C38
\* handle_up leaves line 469 while something listens on the selected port;
\* the log file of a detached host could be created.
LaunchOnTakenPort ==
    /\ pc = "host_start"
    /\ pc' # pc
    /\ loc.host_port \in occupied
    /\ result' # Err("Io")

\* The Err arm of lines 478-487 is entered with the port-in-use error.
RollbackEntered ==
    IF loc.wadm_process
    THEN pc' = "kill_wadm" /\ loc'.pending = Err("HostPortInUse")
    ELSE IF cmd.nats_mode # "connect_only"
    THEN pc' = "stop_nats" /\ loc'.pending = Err("HostPortInUse")
    ELSE pc' = "done" /\ result' = Err("HostPortInUse")

\* C38: the selected dashboard port is not reserved.  It is probed again
\* when the host is launched, and when it has been taken since, the host is
\* not spawned, no other port is tried and the host-start rollback runs.
C38_TakenPortFailsLaunch ==
    [][/\ LaunchOnTakenPort =>
             /\ proc' = proc
             /\ log' = log
             /\ loc'.host_port = loc.host_port
             /\ RollbackEntered
       /\ (Returned' /\ result'.err = "HostPortInUse") =>
             /\ proc'.host = "none"
             /\ ~InLog("spawn_host")'
             /\ loc'.wadm_process => InLog("kill_wadm_ok")'
             /\ cmd.nats_mode # "connect_only" => InLog("stop_nats_ok")']_vars

C38_Witness ==
    /\ Returned
    /\ result = Err("HostPortInUse")
    /\ cmd.dashboard_port = NoPort
    /\ loc.host_port \in occupied
    /\ InLog("spawn_nats")
    /\ InLog("kill_wadm_ok")
    /\ InLog("stop_nats_ok")
    /\ proc.host = "none"
====
